---- MODULE Spec2Model ----
(***************************************************************************)
(* Model of win_convnet/src/layer_kernels.cu: the cost kernels, the        *)
(* gradient kernels, the composite elementwise kernels and the host        *)
(* dispatch functions that launch them.                                    *)
(*                                                                         *)
(* A float is modelled as an exact rational <<n, d>> (d > 0, lowest        *)
(* terms); <<1, 0>>, <<-1, 0>> and <<0, 0>> stand for +inf, -inf and NaN.  *)
(* The results of the intrinsics __logf and __powf are kept as symbolic    *)
(* terms <<n, d, 1>> and <<n, d, 2, pn, pd>>.                              *)
(* A matrix is a record [rows, cols, trans, contig, data], data being the  *)
(* flat device buffer indexed from 0.                                      *)
(***************************************************************************)
EXTENDS Integers, Sequences, FiniteSets, TLC

VARIABLES labels, probs, costOut, correctOut, probWeights, call,
          target, actsGrad, dEdx, coeff, made, elt

costVars == <<costOut, correctOut>>

gradVars == <<target, actsGrad, dEdx, coeff, made>>

lossVars == <<labels, probs, costOut, correctOut, probWeights, target, actsGrad, dEdx,
              coeff, made>>

vars == <<labels, probs, costOut, correctOut, probWeights, call,
          target, actsGrad, dEdx, coeff, made, elt>>

(* ------------------------------ bounds -------------------------------- *)
MaxOut == 3
MaxCases == 2
MaxCells == 4

(* ------------------- launch geometry (layer_kernels.cuh) --------------- *)
LOGREG_ERR_THREADS_X == 2
LOGREG_GRAD_THREADS_X == 2
LOGREG_GRAD_THREADS_Y == 2

(* the block size computeEltwiseMaxGrad instantiates kEltwiseMaxGrad with *)
ELTMAX_B_X == 128

ELTWISE_THREADS_X == 2
ELTWISE_THREADS_Y == 2
NUM_BLOCKS_MAX == 1

Min(a, b) == IF a < b THEN a ELSE b

DIVUP(a, b) == (a + b - 1) \div b

(* --------------------------- float arithmetic -------------------------- *)
Abs(n) == IF n < 0 THEN -n ELSE n

RECURSIVE Gcd(_, _)
Gcd(a, b) == IF b = 0 THEN a ELSE Gcd(b, a % b)

Sign(n) == IF n > 0 THEN 1 ELSE IF n < 0 THEN -1 ELSE 0

Norm(n, d) ==
    IF d = 0 THEN <<Sign(n), 0>>
    ELSE LET s == IF d < 0 THEN -1 ELSE 1
             g == Gcd(Abs(n), Abs(d))
         IN  <<(s * n) \div g, (s * d) \div g>>

R(n) == <<n, 1>>
Zero == <<0, 1>>
One == <<1, 1>>
NaN == <<0, 0>>

IsFinite(a) == a[2] # 0

RAdd(a, b) ==
    IF IsFinite(a) /\ IsFinite(b) THEN Norm(a[1] * b[2] + b[1] * a[2], a[2] * b[2])
    ELSE IF IsFinite(b) THEN a
    ELSE IF IsFinite(a) THEN b
    ELSE IF a = b THEN a ELSE NaN

RNeg(a) == <<-a[1], a[2]>>

RSub(a, b) == RAdd(a, RNeg(b))

RMul(a, b) ==
    IF IsFinite(a) /\ IsFinite(b) THEN Norm(a[1] * b[1], a[2] * b[2])
    ELSE IF a = NaN \/ b = NaN THEN NaN
    ELSE <<Sign(a[1]) * Sign(b[1]), 0>>

RDiv(a, b) ==
    IF IsFinite(a) /\ IsFinite(b) THEN Norm(a[1] * b[2], a[2] * b[1])
    ELSE IF a = NaN \/ b = NaN THEN NaN
    ELSE IF IsFinite(a) THEN Zero
    ELSE IF IsFinite(b) THEN <<a[1] * (IF b[1] < 0 THEN -1 ELSE 1), 0>>
    ELSE NaN

(* a < b on floats: false whenever a NaN takes part *)
RLt(a, b) ==
    IF a = NaN \/ b = NaN THEN FALSE
    ELSE IF IsFinite(a) /\ IsFinite(b) THEN a[1] * b[2] < b[1] * a[2]
    ELSE IF IsFinite(a) THEN b[1] > 0
    ELSE IF IsFinite(b) THEN a[1] < 0
    ELSE a[1] < b[1]

(* a == b on floats: a NaN equals nothing *)
REq(a, b) == a # NaN /\ b # NaN /\ a = b

(* fmaxf(a, b): the other operand when one is a NaN *)
Fmaxf(a, b) == IF a = NaN THEN b ELSE IF b = NaN THEN a ELSE IF RLt(a, b) THEN b ELSE a

(* a C++ bool used as a float factor *)
B2F(b) == IF b THEN One ELSE Zero

(* int(x): truncation toward zero *)
TruncInt(a) == IF a[1] >= 0 THEN a[1] \div a[2] ELSE -((-a[1]) \div a[2])

(* __logf(x) and __powf(x + 1e-6, p), kept symbolic *)
Logf(a) == <<a[1], a[2], 1>>

Powf(logTerm, p) == <<logTerm[1], logTerm[2], 2, p[1], p[2]>>

(* ------------------------- matrix abstraction -------------------------- *)
Mat(r, c, t, cg, d) == [rows |-> r, cols |-> c, trans |-> t, contig |-> cg, data |-> d]

Fill(n, g) == [i \in 0..(n - 1) |-> g]

getNumElements(m) == m.rows * m.cols

getLeadingDim(m) == IF m.trans THEN m.rows ELSE m.cols

getFollowingDim(m) == IF m.trans THEN m.cols ELSE m.rows

isSameDims(a, b) == a.rows = b.rows /\ a.cols = b.cols

Shape(m) == <<m.rows, m.cols>>

(* resize(r, c): a buffer of another size is reallocated, its new contents *)
(* arbitrary (g); a buffer that already has the shape is left alone        *)
Resize(m, r, c, g) ==
    IF m.rows = r /\ m.cols = c THEN m
    ELSE [m EXCEPT !.rows = r, !.cols = c, !.data = Fill(r * c, g)]

RECURSIVE MaxOver(_, _)
MaxOver(f, S) ==
    IF Cardinality(S) = 1 THEN f[CHOOSE i \in S : TRUE]
    ELSE LET i == CHOOSE j \in S : TRUE
         IN  Fmaxf(f[i], MaxOver(f, S \ {i}))

(* m.max(0): the maximum of every column of a non-transposed matrix *)
MaxAxis0(m) ==
    [c \in 0..(m.cols - 1) |->
        MaxOver(m.data, {r * m.cols + c : r \in 0..(m.rows - 1)})]

(* a device read: an index outside the buffer yields an arbitrary value g *)
Read(buf, i, g) == IF i \in DOMAIN buf THEN buf[i] ELSE g

(* ------------------------------ call record ---------------------------- *)
(* What one dispatcher call did: the events in program order, the way it   *)
(* ended ("abort": a failed assert, "exit": exit(EXIT_FAILURE), "fatal":   *)
(* cutilCheckMsg found a device error, "return"), the message of the       *)
(* status check, the shapes of the output buffers handed to the kernel,    *)
(* whether the kernel accessed a buffer out of bounds, whether the launch  *)
(* failed on the device, the launch grid <<gridDim.x, gridDim.y>>, and the *)
(* writes of the kernel as pairs <<thread, index written in each output>>. *)
NoCall ==
    [fn |-> "none", outcome |-> "none", events |-> << >>, msg |-> "",
     inShapes |-> << >>, outShapes |-> << >>, add |-> FALSE, oob |-> FALSE,
     devErr |-> FALSE, grid |-> << >>, writes |-> {}]

(* the composite elementwise buffers when no elementwise call is made *)
NoElt == [in |-> << >>, actGrad |-> << >>, p |-> << >>, t |-> << >>]

(* the asserts of a dispatcher in program order: the index of the first    *)
(* one that fails, 0 when all hold                                         *)
FirstFail(asserts) ==
    IF \A i \in DOMAIN asserts : asserts[i] THEN 0
    ELSE CHOOSE i \in DOMAIN asserts :
            ~asserts[i] /\ \A j \in 1..(i - 1) : asserts[j]

Aborted(f, asserts) ==
    [fn |-> f, outcome |-> "abort",
     events |-> [i \in 1..FirstFail(asserts) |-> "assert"], msg |-> "",
     inShapes |-> << >>, outShapes |-> << >>, add |-> FALSE, oob |-> FALSE,
     devErr |-> FALSE, grid |-> << >>, writes |-> {}]

Passed(asserts) == [i \in DOMAIN asserts |-> "assert"]

(* cutilCheckMsg(msg): terminates the process when the device reports an   *)
(* error, returns otherwise                                                *)
cutilCheckMsg(devErr) == IF devErr THEN "fatal" ELSE "return"

(* ------------------------------ cost kernels --------------------------- *)
(* the threads of a 1-D grid of nBlocks blocks that pass "tx < numCases"   *)
ErrThreads(nBlocks, numCases) ==
    {tx \in 0..(nBlocks * LOGREG_ERR_THREADS_X - 1) : tx < numCases}

(* thread tx writes index tx of every per-case output *)
ErrWrites(nBlocks, numCases) == {<<tx, tx>> : tx \in ErrThreads(nBlocks, numCases)}

TieCredit_NoTies(P, labelp, maxp, tx, numCases, numOut, g) ==
    IF ~REq(labelp, maxp) THEN Zero ELSE One

(* the tie policy shared by the three cost kernels: 0 when the label's     *)
(* value is not the maximum, else 1 / (number of classes at the maximum)   *)
TieCredit(P, labelp, maxp, tx, numCases, numOut, g) ==
    IF ~REq(labelp, maxp) THEN Zero
    ELSE LET numMax == Cardinality({i \in 0..(numOut - 1) :
                                      REq(Read(P, i * numCases + tx, g), maxp)})
         IN  RDiv(One, R(numMax))

LabelValue(P, L, tx, numCases, g) == Read(P, TruncInt(L[tx]) * numCases + tx, g)

(* the buffer after every thread of T wrote val[tx] at index tx *)
WriteCases(buf, T, val) == [i \in DOMAIN buf |-> IF i \in T THEN val[i] ELSE buf[i]]

OutOfBounds(buf, T) == \E tx \in T : tx \notin DOMAIN buf

LabelOutOfBounds(P, L, T, numCases) ==
    \E tx \in T : (TruncInt(L[tx]) * numCases + tx) \notin DOMAIN P

kLogregCost(P, L, M, labelLogProbs, correctProbs, numCases, numOut, nBlocks, g) ==
    LET T == ErrThreads(nBlocks, numCases)
        labelp == [tx \in T |-> LabelValue(P, L, tx, numCases, g)]
    IN  [cost |-> WriteCases(labelLogProbs, T, [tx \in T |-> Logf(labelp[tx])]),
         correct |-> WriteCases(correctProbs, T,
                        [tx \in T |-> TieCredit(P, labelp[tx], M[tx], tx, numCases, numOut, g)]),
         oob |-> \/ OutOfBounds(labelLogProbs, T) \/ OutOfBounds(correctProbs, T)
                 \/ LabelOutOfBounds(P, L, T, numCases)]

HingeSq_NoClamp(svm_label_value) ==
    RMul(RSub(One, svm_label_value), RSub(One, svm_label_value))

HingeSq(svm_label_value) ==
    LET max_label_val == Fmaxf(RSub(One, svm_label_value), Zero)
    IN  RMul(max_label_val, max_label_val)

kL2SVMCost(A, L, M, acts_out, correctPreds, numCases, numOut, nBlocks, g) ==
    LET T == ErrThreads(nBlocks, numCases)
        svm_label_value == [tx \in T |-> LabelValue(A, L, tx, numCases, g)]
    IN  [cost |-> WriteCases(acts_out, T, [tx \in T |-> HingeSq(svm_label_value[tx])]),
         correct |-> WriteCases(correctPreds, T,
                        [tx \in T |-> TieCredit(A, svm_label_value[tx], M[tx], tx, numCases, numOut, g)]),
         oob |-> \/ OutOfBounds(acts_out, T) \/ OutOfBounds(correctPreds, T)
                 \/ LabelOutOfBounds(A, L, T, numCases)]

kRLogCost(P, L, M, labelLogProbs, correctProbs, weights, p_pow, numCases, numOut, nBlocks, g) ==
    LET T == ErrThreads(nBlocks, numCases)
        labelp == [tx \in T |-> LabelValue(P, L, tx, numCases, g)]
    IN  [cost |-> WriteCases(labelLogProbs, T, [tx \in T |-> Logf(labelp[tx])]),
         weights |-> WriteCases(weights, T, [tx \in T |-> Powf(Logf(labelp[tx]), p_pow)]),
         correct |-> WriteCases(correctProbs, T,
                        [tx \in T |-> TieCredit(P, labelp[tx], M[tx], tx, numCases, numOut, g)]),
         oob |-> \/ OutOfBounds(labelLogProbs, T) \/ OutOfBounds(correctProbs, T)
                 \/ OutOfBounds(weights, T)
                 \/ LabelOutOfBounds(P, L, T, numCases)]

(* ---------------------------- cost dispatchers ------------------------- *)
CostAsserts(lab, m) ==
    <<getNumElements(lab) = m.cols, ~lab.trans, ~m.trans, lab.contig, m.contig>>

computeLogregCost(devErr, g) ==
    LET numCases == probs.cols
        numOut == probs.rows
        asserts == CostAsserts(labels, probs)
    IN  IF FirstFail(asserts) # 0
        THEN /\ call' = Aborted("computeLogregCost", asserts)
             /\ UNCHANGED <<labels, probs, costOut, correctOut, probWeights>>
        ELSE LET maxProbs == MaxAxis0(probs)
                 lo == Resize(costOut, 1, numCases, g)
                 co == Resize(correctOut, 1, numCases, g)
                 nBlocks == DIVUP(numCases, LOGREG_ERR_THREADS_X)
                 k == kLogregCost(probs.data, labels.data, maxProbs, lo.data, co.data,
                                  numCases, numOut, nBlocks, g)
             IN  /\ costOut' = IF devErr THEN lo ELSE [lo EXCEPT !.data = k.cost]
                 /\ correctOut' = IF devErr THEN co ELSE [co EXCEPT !.data = k.correct]
                 /\ call' = [fn |-> "computeLogregCost",
                             outcome |-> cutilCheckMsg(devErr),
                             events |-> Passed(asserts) \o <<"max", "resize", "resize", "launch", "check">>,
                             msg |-> "computeLogregCost: Kernel execution failed",
                             outShapes |-> [b \in {"cost", "correct"} |->
                                              IF b = "cost" THEN Shape(lo) ELSE Shape(co)],
                             inShapes |-> [b \in {"labels", "probs"} |->
                                              IF b = "labels" THEN Shape(labels) ELSE Shape(probs)],
                             add |-> FALSE, oob |-> ~devErr /\ k.oob, devErr |-> devErr,
                             grid |-> <<nBlocks, 1>>,
                             writes |-> IF devErr THEN {} ELSE ErrWrites(nBlocks, numCases)]
                 /\ UNCHANGED <<labels, probs, probWeights>>

computeL2SVMCost(devErr, g) ==
    LET numCases == probs.cols
        numOut == probs.rows
        asserts == CostAsserts(labels, probs)
    IN  IF FirstFail(asserts) # 0
        THEN /\ call' = Aborted("computeL2SVMCost", asserts)
             /\ UNCHANGED <<labels, probs, costOut, correctOut, probWeights>>
        ELSE LET maxActs == MaxAxis0(probs)
                 ao == Resize(costOut, 1, numCases, g)
                 co == Resize(correctOut, 1, numCases, g)
                 nBlocks == DIVUP(numCases, LOGREG_ERR_THREADS_X)
                 k == kL2SVMCost(probs.data, labels.data, maxActs, ao.data, co.data,
                                 numCases, numOut, nBlocks, g)
             IN  /\ costOut' = IF devErr THEN ao ELSE [ao EXCEPT !.data = k.cost]
                 /\ correctOut' = IF devErr THEN co ELSE [co EXCEPT !.data = k.correct]
                 /\ call' = [fn |-> "computeL2SVMCost",
                             outcome |-> cutilCheckMsg(devErr),
                             events |-> Passed(asserts) \o <<"max", "resize", "resize", "launch", "check">>,
                             msg |-> "computeL2SVMCost: Kernel execution failed",
                             outShapes |-> [b \in {"cost", "correct"} |->
                                              IF b = "cost" THEN Shape(ao) ELSE Shape(co)],
                             inShapes |-> [b \in {"labels", "probs"} |->
                                              IF b = "labels" THEN Shape(labels) ELSE Shape(probs)],
                             add |-> FALSE, oob |-> ~devErr /\ k.oob, devErr |-> devErr,
                             grid |-> <<nBlocks, 1>>,
                             writes |-> IF devErr THEN {} ELSE ErrWrites(nBlocks, numCases)]
                 /\ UNCHANGED <<labels, probs, probWeights>>

computeRLogCost(p_pow, devErr, g) ==
    LET numCases == probs.cols
        numOut == probs.rows
        asserts == CostAsserts(labels, probs)
    IN  IF FirstFail(asserts) # 0
        THEN /\ call' = Aborted("computeRLogCost", asserts)
             /\ UNCHANGED <<labels, probs, costOut, correctOut, probWeights>>
        ELSE LET maxProbs == MaxAxis0(probs)
                 lo == Resize(costOut, 1, numCases, g)
                 co == Resize(correctOut, 1, numCases, g)
                 nBlocks == DIVUP(numCases, LOGREG_ERR_THREADS_X)
                 k == kRLogCost(probs.data, labels.data, maxProbs, lo.data, co.data,
                                probWeights.data, p_pow, numCases, numOut, nBlocks, g)
             IN  /\ costOut' = IF devErr THEN lo ELSE [lo EXCEPT !.data = k.cost]
                 /\ correctOut' = IF devErr THEN co ELSE [co EXCEPT !.data = k.correct]
                 /\ probWeights' = IF devErr THEN probWeights
                                   ELSE [probWeights EXCEPT !.data = k.weights]
                 /\ call' = [fn |-> "computeRLogCost",
                             outcome |-> cutilCheckMsg(devErr),
                             events |-> Passed(asserts) \o <<"max", "resize", "resize", "launch", "check">>,
                             msg |-> "computeRLogCost: Kernel execution failed",
                             outShapes |-> [b \in {"cost", "correct", "weights"} |->
                                              IF b = "cost" THEN Shape(lo)
                                              ELSE IF b = "correct" THEN Shape(co)
                                              ELSE Shape(probWeights)],
                             inShapes |-> [b \in {"labels", "probs"} |->
                                              IF b = "labels" THEN Shape(labels) ELSE Shape(probs)],
                             add |-> FALSE, oob |-> ~devErr /\ k.oob, devErr |-> devErr,
                             grid |-> <<nBlocks, 1>>,
                             writes |-> IF devErr THEN {} ELSE ErrWrites(nBlocks, numCases)]
                 /\ UNCHANGED <<labels, probs>>

(* -------------------------- inputs of the model ------------------------ *)
Vals == {<<1, 2>>, <<2, 1>>}
Garbage == {<<0, 1>>, <<2, 1>>}
PPows == {<<1, 2>>}
LabelVals == {R(k) : k \in 0..(MaxOut - 1)} \cup {<<3, 2>>}

Shapes ==
    {s \in (1..MaxOut) \X (1..MaxCases) : s[1] * s[2] <= MaxCells}

OutShapes == {<<1, 1>>, <<1, MaxCases>>}

(* the ways a caller's descriptors can break a dispatcher's preconditions; *)
(* such a call ends before any data is read, so the data varies only in    *)
(* the well-formed calls                                                   *)
Defects == {"none", "probsTrans", "probsStrided", "labelsTrans", "labelsLen"}

InitCost ==
    /\ \E s \in Shapes, defect \in Defects :
         /\ \E d \in [0..(s[1] * s[2] - 1) -> IF defect = "none" THEN Vals ELSE {One}] :
               probs = Mat(s[1], s[2], defect = "probsTrans", defect # "probsStrided", d)
         /\ LET n == IF defect = "labelsLen" THEN s[2] + 1 ELSE s[2]
            IN  \E d \in [0..(n - 1) -> IF defect = "none" THEN LabelVals ELSE {Zero}] :
                   labels = Mat(1, n, defect = "labelsTrans", TRUE, d)
    /\ \E o \in OutShapes :
         /\ costOut = Mat(o[1], o[2], FALSE, TRUE, Fill(o[1] * o[2], Zero))
         /\ correctOut = costOut
         /\ probWeights = costOut
    /\ call = NoCall
    /\ target = Mat(1, 1, FALSE, TRUE, Fill(1, Zero))
    /\ actsGrad = target
    /\ dEdx = target
    /\ coeff = One
    /\ made = {}
    /\ elt = NoElt

(* a failed assert, exit() and a failed status check end the process: a    *)
(* dispatcher is called only while the process is alive                    *)
Alive == call.outcome \in {"none", "return"}

NextCost ==
    /\ Alive
    /\ \/ \E devErr \in BOOLEAN, g \in Garbage : computeLogregCost(devErr, g)
       \/ \E devErr \in BOOLEAN, g \in Garbage : computeL2SVMCost(devErr, g)
       \/ \E p \in PPows, devErr \in BOOLEAN, g \in Garbage : computeRLogCost(p, devErr, g)
    /\ UNCHANGED <<gradVars, elt>>

SpecCost == InitCost /\ [][NextCost]_vars

(* ------------------------- claims on the cost path --------------------- *)
CostFns == {"computeLogregCost", "computeRLogCost", "computeL2SVMCost"}

CostRan == call.fn \in CostFns /\ call.outcome = "return"

Cases == 0..(probs.cols - 1)

Classes == 0..(probs.rows - 1)

Cell(r, c) == probs.data[r * probs.cols + c]

LabelOf(c) == TruncInt(labels.data[c])

ValidLabel(c) == LabelOf(c) \in Classes

(* the label's value is below some class of its column *)
BelowMax(c) == \E r \in Classes : RLt(Cell(LabelOf(c), c), Cell(r, c))

(* the classes of column c that attain the column's maximum *)
AtMax(c) == {r \in Classes : \A q \in Classes : ~RLt(Cell(r, c), Cell(q, c))}

(* C1: after a cost dispatcher returns, for every case with a label in     *)
(* 0..numOut-1 the correctness value is 0 when the label's value is not    *)
(* the column maximum and 1/k otherwise, k the number of classes at the    *)
(* maximum; so it is 0 or 1/k for some k in 1..numOut.                     *)
C1_Correctness ==
    CostRan =>
        \A c \in Cases : ValidLabel(c) =>
            /\ correctOut.data[c] =
                  IF BelowMax(c) THEN Zero ELSE <<1, Cardinality(AtMax(c))>>
            /\ correctOut.data[c] \in {Zero} \cup {<<1, k>> : k \in 1..probs.rows}

C1_Witness ==
    /\ CostRan
    /\ \E c \in Cases : ValidLabel(c) /\ correctOut.data[c] = <<1, 2>>
    /\ \E c \in Cases : ValidLabel(c) /\ correctOut.data[c] = Zero

(* C6: when a cost dispatcher launches its kernel, every per-case output   *)
(* buffer handed to the kernel has the shape 1 x numCases.                 *)
C6_OutputsResized ==
    (call.fn \in CostFns /\ call.outcome \in {"return", "fatal"}) =>
        \A b \in DOMAIN call.outShapes : call.outShapes[b] = <<1, probs.cols>>

(* C7: the cost written by kL2SVMCost is 0 when the label's activation is  *)
(* >= 1 and (1 - act)^2 when it is < 1, whatever the other classes hold.   *)
C7_HingeCost ==
    (call.fn = "computeL2SVMCost" /\ call.outcome = "return") =>
        \A c \in Cases : ValidLabel(c) =>
            LET a == Cell(LabelOf(c), c)
            IN  costOut.data[c] =
                   IF RLt(a, One) THEN RMul(RSub(One, a), RSub(One, a)) ELSE Zero

C7_Witness ==
    /\ call.fn = "computeL2SVMCost" /\ call.outcome = "return"
    /\ \E c \in Cases : ValidLabel(c) /\ RLt(One, Cell(LabelOf(c), c))
                        /\ costOut.data[c] = Zero
    /\ \E c \in Cases : ValidLabel(c) /\ RLt(Cell(LabelOf(c), c), One)
                        /\ costOut.data[c] = <<1, 4>>

(* ---------------------------- gradient kernels ------------------------- *)
(* NVMatrix::getTranspose(): the same buffer seen with rows and columns    *)
(* swapped and the transpose flag flipped                                  *)
getTranspose(m) == [m EXCEPT !.rows = m.cols, !.cols = m.rows, !.trans = ~m.trans]

(* resize(like): takes like's transpose flag, then resize(rows, cols) *)
ResizeLike(m, like, g) == Resize([m EXCEPT !.trans = like.trans], like.rows, like.cols, g)

(* the threads <<tx, ty>> of a 2-D grid that pass "ty < numOut && tx <     *)
(* numCases", each with the flat index tidx = ty * numCases + tx it writes *)
GradWrites(bx, by, numCases, numOut) ==
    {<<<<tx, ty>>, ty * numCases + tx>> :
        tx \in {x \in 0..(bx * LOGREG_GRAD_THREADS_X - 1) : x < numCases},
        ty \in {y \in 0..(by * LOGREG_GRAD_THREADS_Y - 1) : y < numOut}}

(* the flat indices written by the grid *)
GradThreads(bx, by, numCases, numOut) ==
    {w[2] : w \in GradWrites(bx, by, numCases, numOut)}

(* "if (add) buf[i] += v; else buf[i] = v;" by every thread of T *)
Store_NeverAdd(add, buf, T, v) ==
    [i \in DOMAIN buf |-> IF i \in T THEN v[i] ELSE buf[i]]

Store(add, buf, T, v) ==
    [i \in DOMAIN buf |->
        IF i \in T THEN (IF add THEN RAdd(buf[i], v[i]) ELSE v[i]) ELSE buf[i]]

Stored(add, buf, T, v, readOob) ==
    [data |-> Store(add, buf, T, v), oob |-> readOob \/ \E i \in T : i \notin DOMAIN buf]

LabelIs(L, tx, ty) == TruncInt(L[tx]) = ty

kLogregCostGrad(add, y_l, L, dE_dy_l, numCases, numOut, gradCoeff, bx, by, g) ==
    LET T == GradThreads(bx, by, numCases, numOut)
        v == [i \in T |->
                RDiv(RMul(gradCoeff, B2F(LabelIs(L, i % numCases, i \div numCases))),
                     y_l[i])]
    IN  Stored(add, dE_dy_l, T, v, FALSE)

kRLogCostGrad(add, y_l, L, dE_dy_l, weights, numCases, numOut, gradCoeff, bx, by, g) ==
    LET T == GradThreads(bx, by, numCases, numOut)
        v == [i \in T |->
                RDiv(RMul(RMul(Read(weights, i % numCases, g), gradCoeff),
                          B2F(LabelIs(L, i % numCases, i \div numCases))),
                     y_l[i])]
    IN  Stored(add, dE_dy_l, T, v, \E i \in T : (i % numCases) \notin DOMAIN weights)

RECURSIVE JacobianSum(_, _, _, _, _, _, _)
JacobianSum(dE_dy_l, y_l, tx, ty, j, numCases, g) ==
    IF j < 0 THEN Zero
    ELSE RAdd(JacobianSum(dE_dy_l, y_l, tx, ty, j - 1, numCases, g),
              RMul(Read(dE_dy_l, j * numCases + tx, g),
                   RSub(B2F(j = ty), y_l[j * numCases + tx])))

kSoftmaxGrad_NoScale(add, dE_dy_l, y_l, dE_dx_l, numCases, numOut, bx, by, g) ==
    LET T == GradThreads(bx, by, numCases, numOut)
        v == [i \in T |->
                JacobianSum(dE_dy_l, y_l, i % numCases, i \div numCases,
                            numOut - 1, numCases, g)]
    IN  Stored(add, dE_dx_l, T, v, FALSE)

kSoftmaxGrad(add, dE_dy_l, y_l, dE_dx_l, numCases, numOut, bx, by, g) ==
    LET T == GradThreads(bx, by, numCases, numOut)
        v == [i \in T |->
                RMul(JacobianSum(dE_dy_l, y_l, i % numCases, i \div numCases,
                                 numOut - 1, numCases, g),
                     y_l[i])]
    IN  Stored(add, dE_dx_l, T, v,
               \E i \in T : \E j \in 0..(numOut - 1) : (j * numCases + (i % numCases)) \notin DOMAIN dE_dy_l)

kL2SVMGrad(add, y_l, L, dE_dx_l, numCases, numOut, gradCoeff, bx, by, g) ==
    LET T == GradThreads(bx, by, numCases, numOut)
        t(i) == IF LabelIs(L, i % numCases, i \div numCases) THEN One ELSE RNeg(One)
        act(i) == RSub(One, RMul(t(i), y_l[i]))
        max_val(i) == RAdd(Fmaxf(act(i), Zero), RMul(<<3, 10>>, B2F(RLt(Zero, act(i)))))
        v == [i \in T |-> RMul(RMul(gradCoeff, t(i)), max_val(i))]
    IN  Stored(add, dE_dx_l, T, v, FALSE)

kLogregSoftmaxGrad(add, y_l, L, dE_dx_l, numCases, numOut, gradCoeff, bx, by, g) ==
    LET T == GradThreads(bx, by, numCases, numOut)
        v == [i \in T |->
                RMul(gradCoeff,
                     RSub(B2F(LabelIs(L, i % numCases, i \div numCases)), y_l[i]))]
    IN  Stored(add, dE_dx_l, T, v, FALSE)

kRLogSoftmaxGrad(add, y_l, L, dE_dx_l, weights, numCases, numOut, gradCoeff, bx, by, g) ==
    LET T == GradThreads(bx, by, numCases, numOut)
        v == [i \in T |->
                RMul(RMul(gradCoeff,
                          RSub(B2F(LabelIs(L, i % numCases, i \div numCases)), y_l[i])),
                     Read(weights, i % numCases, g))]
    IN  Stored(add, dE_dx_l, T, v, \E i \in T : (i % numCases) \notin DOMAIN weights)

(* the threads of kEltwiseMaxGrad's 1-D grid: thread i0 handles i0,        *)
(* i0 + B_X * gridDim.x, ... below numElements, so that index i is handled *)
(* by thread i mod (B_X * gridDim.x)                                       *)
MaxGradWrites(blocks, numElements) ==
    {<<i % (ELTMAX_B_X * blocks), i>> : i \in 0..(numElements - 1)}

MaxGradCells(blocks, numElements) == {w[2] : w \in MaxGradWrites(blocks, numElements)}

kEltwiseMaxGrad_NoMask(add, actGrad, input, output, tgt, numElements, blocks, g) ==
    LET T == MaxGradCells(blocks, numElements)
    IN  Stored(add, tgt, T, [i \in T |-> actGrad[i]], FALSE)

kEltwiseMaxGrad(add, actGrad, input, output, tgt, numElements, blocks, g) ==
    LET T == MaxGradCells(blocks, numElements)
        v == [i \in T |-> RMul(actGrad[i], B2F(REq(output[i], input[i])))]
    IN  Stored(add, tgt, T, v, FALSE)

(* -------------------------- gradient dispatchers ----------------------- *)
(* Each dispatcher is a function of its arguments: the target it leaves    *)
(* and the record of the call.                                             *)
Launched(f, pre, resized, checked, m, devErr, oob, add, ins, outs, grid, writes) ==
    [fn |-> f,
     outcome |-> IF checked THEN cutilCheckMsg(devErr) ELSE "return",
     events |-> pre \o (IF resized THEN <<"resize">> ELSE << >>)
                \o <<"launch">> \o (IF checked THEN <<"check">> ELSE << >>),
     msg |-> m, inShapes |-> ins, outShapes |-> outs, add |-> add,
     oob |-> ~devErr /\ oob, devErr |-> devErr,
     grid |-> grid, writes |-> IF devErr THEN {} ELSE writes]

computeLogregGrad(lab, pr, tgt, add, cf, devErr, g) ==
    LET numCases == getLeadingDim(pr)
        numOut == getFollowingDim(pr)
        asserts == <<getNumElements(lab) = numCases, pr.contig, tgt.contig,
                     lab.contig, ~lab.trans, ~pr.trans>>
        bx == DIVUP(numCases, LOGREG_GRAD_THREADS_X)
        by == DIVUP(numOut, LOGREG_GRAD_THREADS_Y)
        t1 == IF add THEN tgt ELSE ResizeLike(tgt, pr, g)
        k == kLogregCostGrad(add, pr.data, lab.data, t1.data, numCases, numOut, cf, bx, by, g)
    IN  IF FirstFail(asserts) # 0
        THEN [target |-> tgt, call |-> Aborted("computeLogregGrad", asserts)]
        ELSE [target |-> IF devErr THEN t1 ELSE [t1 EXCEPT !.data = k.data],
              call |-> Launched("computeLogregGrad", Passed(asserts), ~add, TRUE,
                          "computeLogregGrad: Kernel execution failed", devErr, k.oob, add,
                          [b \in {"labels", "probs"} |->
                              IF b = "labels" THEN Shape(lab) ELSE Shape(pr)],
                          [b \in {"target"} |-> Shape(t1)],
                          <<bx, by>>, GradWrites(bx, by, numCases, numOut))]

computeRLogGrad(lab, pr, tgt, w, add, cf, devErr, g) ==
    LET numCases == getLeadingDim(pr)
        numOut == getFollowingDim(pr)
        asserts == <<getNumElements(lab) = numCases, pr.contig, tgt.contig,
                     lab.contig, ~lab.trans, ~pr.trans>>
        bx == DIVUP(numCases, LOGREG_GRAD_THREADS_X)
        by == DIVUP(numOut, LOGREG_GRAD_THREADS_Y)
        t1 == IF add THEN tgt ELSE ResizeLike(tgt, pr, g)
        k == kRLogCostGrad(add, pr.data, lab.data, t1.data, w.data, numCases, numOut, cf, bx, by, g)
    IN  IF FirstFail(asserts) # 0
        THEN [target |-> tgt, call |-> Aborted("computeRLogGrad", asserts)]
        ELSE [target |-> IF devErr THEN t1 ELSE [t1 EXCEPT !.data = k.data],
              call |-> Launched("computeRLogGrad", Passed(asserts), ~add, TRUE,
                          "computeLogregGrad: Kernel execution failed", devErr, k.oob, add,
                          [b \in {"labels", "probs", "probWeights"} |->
                              IF b = "labels" THEN Shape(lab)
                              ELSE IF b = "probs" THEN Shape(pr) ELSE Shape(w)],
                          [b \in {"target"} |-> Shape(t1)],
                          <<bx, by>>, GradWrites(bx, by, numCases, numOut))]

computeL2SVMGrad(lab, acts, tgt, add, cf, devErr, g) ==
    LET numCases == getLeadingDim(acts)
        numOut == getFollowingDim(acts)
        asserts == <<getNumElements(lab) = numCases, acts.contig, tgt.contig,
                     lab.contig, acts.trans>>
        bx == DIVUP(numCases, LOGREG_GRAD_THREADS_X)
        by == DIVUP(numOut, LOGREG_GRAD_THREADS_Y)
        t1 == IF add THEN tgt ELSE ResizeLike(tgt, acts, g)
        k == kL2SVMGrad(add, acts.data, lab.data, t1.data, numCases, numOut, cf, bx, by, g)
    IN  IF FirstFail(asserts) # 0
        THEN [target |-> tgt, call |-> Aborted("computeL2SVMGrad", asserts)]
        ELSE [target |-> IF devErr THEN t1 ELSE [t1 EXCEPT !.data = k.data],
              call |-> Launched("computeL2SVMGrad", Passed(asserts), ~add, FALSE,
                          "", devErr, k.oob, add,
                          [b \in {"labels", "acts"} |->
                              IF b = "labels" THEN Shape(lab) ELSE Shape(acts)],
                          [b \in {"target"} |-> Shape(t1)],
                          <<bx, by>>, GradWrites(bx, by, numCases, numOut))]

computeSoftmaxGrad(acts, grad, tgt, add, devErr, g) ==
    LET numCases == getLeadingDim(acts)
        numOut == getFollowingDim(acts)
        asserts == <<isSameDims(acts, grad), acts.contig, grad.contig, tgt.contig,
                     acts.trans, grad.trans>>
        bx == DIVUP(numCases, LOGREG_GRAD_THREADS_X)
        by == DIVUP(numOut, LOGREG_GRAD_THREADS_Y)
        t1 == IF add THEN tgt ELSE ResizeLike(tgt, acts, g)
        k == kSoftmaxGrad(add, grad.data, acts.data, t1.data, numCases, numOut, bx, by, g)
    IN  IF FirstFail(asserts) # 0
        THEN [target |-> tgt, call |-> Aborted("computeSoftmaxGrad", asserts)]
        ELSE [target |-> IF devErr THEN t1 ELSE [t1 EXCEPT !.data = k.data],
              call |-> Launched("computeSoftmaxGrad", Passed(asserts), ~add, TRUE,
                          "computeSoftmaxGrad: Kernel execution failed", devErr, k.oob, add,
                          [b \in {"acts", "actsGrad"} |->
                              IF b = "acts" THEN Shape(acts) ELSE Shape(grad)],
                          [b \in {"target"} |-> Shape(t1)],
                          <<bx, by>>, GradWrites(bx, by, numCases, numOut))]

computeLogregSoftmaxGrad(lab, pr, tgt, add, cf, devErr, g) ==
    LET numCases == getLeadingDim(pr)
        numOut == getFollowingDim(pr)
        asserts == <<getNumElements(lab) = numCases, pr.contig, tgt.contig,
                     lab.contig, pr.trans>>
        bx == DIVUP(numCases, LOGREG_GRAD_THREADS_X)
        by == DIVUP(numOut, LOGREG_GRAD_THREADS_Y)
        t1 == IF add THEN tgt ELSE ResizeLike(tgt, pr, g)
        k == kLogregSoftmaxGrad(add, pr.data, lab.data, t1.data, numCases, numOut, cf, bx, by, g)
    IN  IF FirstFail(asserts) # 0
        THEN [target |-> tgt, call |-> Aborted("computeLogregSoftmaxGrad", asserts)]
        ELSE [target |-> IF devErr THEN t1 ELSE [t1 EXCEPT !.data = k.data],
              call |-> Launched("computeLogregSoftmaxGrad", Passed(asserts), ~add, TRUE,
                          "computeLogregSoftmaxGrad: Kernel execution failed", devErr, k.oob, add,
                          [b \in {"labels", "probs"} |->
                              IF b = "labels" THEN Shape(lab) ELSE Shape(pr)],
                          [b \in {"target"} |-> Shape(t1)],
                          <<bx, by>>, GradWrites(bx, by, numCases, numOut))]

computeRLogSoftmaxGrad(lab, pr, tgt, w, add, cf, devErr, g) ==
    LET numCases == getLeadingDim(pr)
        numOut == getFollowingDim(pr)
        asserts == <<getNumElements(lab) = numCases, pr.contig, tgt.contig,
                     lab.contig, pr.trans>>
        bx == DIVUP(numCases, LOGREG_GRAD_THREADS_X)
        by == DIVUP(numOut, LOGREG_GRAD_THREADS_Y)
        t1 == IF add THEN tgt ELSE ResizeLike(tgt, pr, g)
        k == kRLogSoftmaxGrad(add, pr.data, lab.data, t1.data, w.data, numCases, numOut, cf, bx, by, g)
    IN  IF FirstFail(asserts) # 0
        THEN [target |-> tgt, call |-> Aborted("computeRLogSoftmaxGrad", asserts)]
        ELSE IF ~isSameDims(lab, w)
        THEN [target |-> tgt,
              call |-> [fn |-> "computeRLogSoftmaxGrad", outcome |-> "exit",
                        events |-> Passed(asserts) \o <<"explicit">>,
                        msg |-> "computeRLogSoftmaxGrad - probWeights dimesions are wrong! ",
                        inShapes |-> << >>, outShapes |-> << >>, add |-> add,
                        oob |-> FALSE, devErr |-> FALSE, grid |-> << >>, writes |-> {}]]
        ELSE [target |-> IF devErr THEN t1 ELSE [t1 EXCEPT !.data = k.data],
              call |-> Launched("computeRLogSoftmaxGrad", Passed(asserts) \o <<"explicit">>, ~add, TRUE,
                          "computeRLogSoftmaxGrad: Kernel execution failed", devErr, k.oob, add,
                          [b \in {"labels", "probs", "probWeights"} |->
                              IF b = "labels" THEN Shape(lab)
                              ELSE IF b = "probs" THEN Shape(pr) ELSE Shape(w)],
                          [b \in {"target"} |-> Shape(t1)],
                          <<bx, by>>, GradWrites(bx, by, numCases, numOut))]

computeEltwiseMaxGrad_ResizeFirst(actGrad, input, output, tgt, add, devErr, g) ==
    LET asserts == <<actGrad.contig, output.contig, input.contig,
                     isSameDims(actGrad, input), isSameDims(actGrad, output)>>
                   \o (IF add THEN <<isSameDims(actGrad, tgt)>> ELSE << >>)
        blocks == DIVUP(getNumElements(actGrad), ELTMAX_B_X)
        t1 == IF add THEN tgt ELSE ResizeLike(tgt, actGrad, g)
        k == kEltwiseMaxGrad(add, actGrad.data, input.data, output.data, t1.data,
                             getNumElements(actGrad), blocks, g)
    IN  IF FirstFail(asserts) # 0
        THEN [target |-> ResizeLike(tgt, actGrad, g), call |-> Aborted("computeEltwiseMaxGrad", asserts)]
        ELSE [target |-> IF devErr THEN t1 ELSE [t1 EXCEPT !.data = k.data],
              call |-> Launched("computeEltwiseMaxGrad", Passed(asserts), ~add, TRUE,
                          "computeEltwiseMaxGrad: Kernel execution failed", devErr, k.oob, add,
                          [b \in {"actGrad", "input", "output"} |->
                              IF b = "actGrad" THEN Shape(actGrad)
                              ELSE IF b = "input" THEN Shape(input) ELSE Shape(output)],
                          [b \in {"target"} |-> Shape(t1)],
                          <<blocks, 1>>, MaxGradWrites(blocks, getNumElements(actGrad)))]

computeEltwiseMaxGrad(actGrad, input, output, tgt, add, devErr, g) ==
    LET asserts == <<actGrad.contig, output.contig, input.contig,
                     isSameDims(actGrad, input), isSameDims(actGrad, output)>>
                   \o (IF add THEN <<isSameDims(actGrad, tgt)>> ELSE << >>)
        blocks == DIVUP(getNumElements(actGrad), ELTMAX_B_X)
        t1 == IF add THEN tgt ELSE ResizeLike(tgt, actGrad, g)
        k == kEltwiseMaxGrad(add, actGrad.data, input.data, output.data, t1.data,
                             getNumElements(actGrad), blocks, g)
    IN  IF FirstFail(asserts) # 0
        THEN [target |-> tgt, call |-> Aborted("computeEltwiseMaxGrad", asserts)]
        ELSE [target |-> IF devErr THEN t1 ELSE [t1 EXCEPT !.data = k.data],
              call |-> Launched("computeEltwiseMaxGrad", Passed(asserts), ~add, TRUE,
                          "computeEltwiseMaxGrad: Kernel execution failed", devErr, k.oob, add,
                          [b \in {"actGrad", "input", "output"} |->
                              IF b = "actGrad" THEN Shape(actGrad)
                              ELSE IF b = "input" THEN Shape(input) ELSE Shape(output)],
                          [b \in {"target"} |-> Shape(t1)],
                          <<blocks, 1>>, MaxGradWrites(blocks, getNumElements(actGrad)))]

(* --------------------- one gradient call per behaviour ----------------- *)
(* The dispatchers keep no state between calls: a behaviour is one call on *)
(* arguments the caller prepared.  The caller holds the forward matrix     *)
(* row-major (numOut x numCases) and hands a dispatcher either the matrix  *)
(* or its transposed view.                                                 *)
Coeffs == {<<-2, 1>>, <<1, 2>>}

GradDefects ==
    {"none", "probsStrided", "labelsTrans", "labelsLen", "weightsLen",
     "gradShape", "targetStrided"}

View(m, tv) == IF tv THEN getTranspose(m) ELSE m

(* the output of an elementwise-max layer over the forward matrix and a    *)
(* second input that is 1 everywhere                                       *)
MaxWithOne(m) == [m EXCEPT !.data = [i \in DOMAIN m.data |-> Fmaxf(m.data[i], One)]]

InitArgs(WellFormed) ==
    /\ \E s \in Shapes, defect \in WellFormed :
         /\ \E d \in [0..(s[1] * s[2] - 1) -> IF defect = "none" THEN Vals ELSE {One}] :
               probs = Mat(s[1], s[2], FALSE, defect # "probsStrided", d)
         /\ LET n == IF defect = "labelsLen" THEN s[2] + 1 ELSE s[2]
            IN  \E d \in [0..(n - 1) -> IF defect = "none" THEN LabelVals ELSE {Zero}] :
                   labels = Mat(1, n, defect = "labelsTrans", TRUE, d)
         /\ LET n == IF defect = "weightsLen" THEN s[2] + 1 ELSE s[2]
            IN  probWeights = Mat(1, n, FALSE, TRUE, [i \in 0..(n - 1) |-> <<i + 1, 2>>])
         /\ LET gs == IF defect = "gradShape" THEN <<s[1] + 1, s[2]>> ELSE s
            IN  actsGrad = Mat(gs[1], gs[2], FALSE, TRUE,
                               [i \in 0..(gs[1] * gs[2] - 1) |-> R(i + 1)])
         /\ \E ts \in {s, <<1, 1>>} :
               target = Mat(ts[1], ts[2], FALSE, defect # "targetStrided",
                            [i \in 0..(ts[1] * ts[2] - 1) |-> R(-(i + 3))])
    /\ \E cf \in Coeffs : coeff = cf
    /\ dEdx = Mat(1, 1, FALSE, TRUE, Fill(1, Zero))
    /\ costOut = dEdx
    /\ correctOut = dEdx
    /\ made = {}
    /\ elt = NoElt
    /\ call = NoCall

InitGrad == InitArgs(GradDefects)

Returns(r) ==
    /\ target' = r.target
    /\ call' = r.call
    /\ UNCHANGED <<labels, probs, probWeights, actsGrad, dEdx, coeff, made, costVars, elt>>

LogregGrad(tv, add, devErr, g) ==
    Returns(computeLogregGrad(labels, View(probs, tv), View(target, tv), add, coeff, devErr, g))

RLogGrad(tv, add, devErr, g) ==
    Returns(computeRLogGrad(labels, View(probs, tv), View(target, tv), probWeights, add, coeff, devErr, g))

L2SVMGrad(tv, add, devErr, g) ==
    Returns(computeL2SVMGrad(labels, View(probs, tv), View(target, tv), add, coeff, devErr, g))

SoftmaxGrad(tv, add, devErr, g) ==
    Returns(computeSoftmaxGrad(View(probs, tv), View(actsGrad, tv), View(target, tv), add, devErr, g))

LogregSoftmaxGrad(tv, add, devErr, g) ==
    Returns(computeLogregSoftmaxGrad(labels, View(probs, tv), View(target, tv), add, coeff, devErr, g))

RLogSoftmaxGrad(tv, add, devErr, g) ==
    Returns(computeRLogSoftmaxGrad(labels, View(probs, tv), View(target, tv), probWeights, add, coeff, devErr, g))

EltwiseMaxGrad(add, devErr, g) ==
    Returns(computeEltwiseMaxGrad(actsGrad, probs, MaxWithOne(probs), target, add, devErr, g))

NextGrad ==
    /\ call.fn = "none"
    /\ \/ \E tv, add, devErr \in BOOLEAN, g \in Garbage : LogregGrad(tv, add, devErr, g)
       \/ \E tv, add, devErr \in BOOLEAN, g \in Garbage : RLogGrad(tv, add, devErr, g)
       \/ \E tv, add, devErr \in BOOLEAN, g \in Garbage : L2SVMGrad(tv, add, devErr, g)
       \/ \E tv, add, devErr \in BOOLEAN, g \in Garbage : SoftmaxGrad(tv, add, devErr, g)
       \/ \E tv, add, devErr \in BOOLEAN, g \in Garbage : LogregSoftmaxGrad(tv, add, devErr, g)
       \/ \E tv, add, devErr \in BOOLEAN, g \in Garbage : RLogSoftmaxGrad(tv, add, devErr, g)
       \/ \E add, devErr \in BOOLEAN, g \in Garbage : EltwiseMaxGrad(add, devErr, g)

SpecGrad == InitGrad /\ [][NextGrad]_vars

(* ----------------------- claims on the gradient path ------------------- *)
GradFns ==
    {"computeLogregGrad", "computeRLogGrad", "computeL2SVMGrad", "computeSoftmaxGrad",
     "computeLogregSoftmaxGrad", "computeRLogSoftmaxGrad", "computeEltwiseMaxGrad"}

(* what the dispatcher f, called with add = false on the arguments of the  *)
(* current state (forward matrix and target passed as the view tv), does   *)
Overwriting(f, tv) ==
    CASE f = "computeLogregGrad" ->
            computeLogregGrad(labels, View(probs, tv), View(target, tv), FALSE, coeff, FALSE, Zero)
      [] f = "computeRLogGrad" ->
            computeRLogGrad(labels, View(probs, tv), View(target, tv), probWeights, FALSE, coeff, FALSE, Zero)
      [] f = "computeL2SVMGrad" ->
            computeL2SVMGrad(labels, View(probs, tv), View(target, tv), FALSE, coeff, FALSE, Zero)
      [] f = "computeSoftmaxGrad" ->
            computeSoftmaxGrad(View(probs, tv), View(actsGrad, tv), View(target, tv), FALSE, FALSE, Zero)
      [] f = "computeLogregSoftmaxGrad" ->
            computeLogregSoftmaxGrad(labels, View(probs, tv), View(target, tv), FALSE, coeff, FALSE, Zero)
      [] f = "computeRLogSoftmaxGrad" ->
            computeRLogSoftmaxGrad(labels, View(probs, tv), View(target, tv), probWeights, FALSE, coeff, FALSE, Zero)
      [] f = "computeEltwiseMaxGrad" ->
            computeEltwiseMaxGrad(actsGrad, probs, MaxWithOne(probs), target, FALSE, FALSE, Zero)

(* C3: for every gradient dispatcher and a target that already has the     *)
(* forward matrix's shape, the target after a call with add = true (whose  *)
(* kernel ran) is, cell for cell, the prior target plus the target the     *)
(* call with add = false produces from the same inputs.                    *)
C3_AddAccumulates ==
    [][(call.fn = "none" /\ call'.fn \in GradFns /\ call'.outcome = "return" /\ call'.add
        /\ ~call'.devErr /\ isSameDims(target, probs))
       => \A tv \in BOOLEAN :
             LET r0 == Overwriting(call'.fn, tv)
             IN  r0.call.outcome = "return" =>
                    /\ DOMAIN target'.data = DOMAIN r0.target.data
                    /\ \A i \in DOMAIN target.data :
                          target'.data[i] = RAdd(target.data[i], r0.target.data[i])]_vars

C3_Witness ==
    /\ call.fn = "computeSoftmaxGrad" /\ call.outcome = "return" /\ call.add
    /\ isSameDims(getTranspose(target), probs)
    /\ getNumElements(target) > 1
    /\ \E i \in DOMAIN target.data : target.data[i] # R(-(i + 3))

(* C4: every dispatcher queries the device status after the launch and     *)
(* before it returns: none returns normally after a failed launch.         *)
C4_StatusChecked ==
    (call.outcome = "return" /\ Len(call.events) > 0) =>
        /\ call.events[Len(call.events)] = "check"
        /\ ~call.devErr

(* C5: no kernel is launched with mismatched input shapes: a weight vector *)
(* handed to a launched kernel has the dimensions of the label vector, and *)
(* the gradient handed to the softmax Jacobian those of the activations.   *)
C5_MismatchDetected ==
    (call.outcome \in {"return", "fatal"}) =>
        /\ ("probWeights" \in DOMAIN call.inShapes =>
               call.inShapes["probWeights"] = call.inShapes["labels"])
        /\ ("actsGrad" \in DOMAIN call.inShapes =>
               call.inShapes["actsGrad"] = call.inShapes["acts"])

InitChain == InitArgs({"none"})

ChainLogregGrad(tv, tg, devErr, g) ==
    LET r == computeLogregGrad(labels, View(probs, tv), View(actsGrad, tg), FALSE, coeff, devErr, g)
    IN  /\ "dEdy" \notin made
        /\ actsGrad' = r.target
        /\ call' = r.call
        /\ made' = IF r.call.outcome = "return" THEN made \cup {"dEdy"} ELSE made
        /\ UNCHANGED <<labels, probs, probWeights, target, dEdx, coeff, costVars, elt>>

ChainSoftmaxGrad(tv, tg, devErr, g) ==
    LET r == computeSoftmaxGrad(View(probs, tv), View(actsGrad, tg), dEdx, FALSE, devErr, g)
    IN  /\ "dEdy" \in made /\ "dEdx" \notin made
        /\ dEdx' = r.target
        /\ call' = r.call
        /\ made' = IF r.call.outcome = "return" THEN made \cup {"dEdx"} ELSE made
        /\ UNCHANGED <<labels, probs, probWeights, target, actsGrad, coeff, costVars, elt>>

ChainLogregSoftmaxGrad(tv, devErr, g) ==
    LET r == computeLogregSoftmaxGrad(labels, View(probs, tv), target, FALSE, coeff, devErr, g)
    IN  /\ "fused" \notin made
        /\ target' = r.target
        /\ call' = r.call
        /\ made' = IF r.call.outcome = "return" THEN made \cup {"fused"} ELSE made
        /\ UNCHANGED <<labels, probs, probWeights, actsGrad, dEdx, coeff, costVars, elt>>

NextChain ==
    /\ Alive
    /\ \/ \E tv, tg, devErr \in BOOLEAN, g \in Garbage : ChainLogregGrad(tv, tg, devErr, g)
       \/ \E tv, tg, devErr \in BOOLEAN, g \in Garbage : ChainSoftmaxGrad(tv, tg, devErr, g)
       \/ \E tv, devErr \in BOOLEAN, g \in Garbage : ChainLogregSoftmaxGrad(tv, devErr, g)

SpecChain == InitChain /\ [][NextChain]_vars

(* C2 as claimed: with add = false throughout and the same probabilities,  *)
(* labels and gradCoeff, the target of computeLogregSoftmaxGrad equals     *)
(* cell for cell the target of computeSoftmaxGrad fed with                 *)
(* computeLogregGrad's output.                                             *)
C2_FusedEqualsComposed ==
    ({"dEdx", "fused"} \subseteq made) =>
        /\ Shape(dEdx) = Shape(target)
        /\ dEdx.data = target.data

(* C2 amended: the two targets have the same shape and agree cell for cell *)
(* in every case whose truncated label is a class in 0..numOut-1.          *)
C2_FusedEqualsComposedInRange ==
    ({"dEdx", "fused"} \subseteq made) =>
        /\ Shape(dEdx) = Shape(target)
        /\ \A c \in Cases : ValidLabel(c) =>
              \A r \in Classes :
                 dEdx.data[r * probs.cols + c] = target.data[r * probs.cols + c]

C2_Witness ==
    /\ {"dEdx", "fused"} \subseteq made
    /\ probs.rows > 1 /\ probs.cols > 1
    /\ \A c \in Cases : ValidLabel(c)
    /\ \E i, j \in DOMAIN target.data : target.data[i] # target.data[j]

(* -------------------- composite elementwise kernels -------------------- *)
(* getStride() of a contiguous matrix *)
getStride(m) == getLeadingDim(m)

(* the threads <<idxX, idxY>> of a grid of blocksX x blocksY blocks *)
EltGrid(blocksX, blocksY) ==
    (0..(blocksX * ELTWISE_THREADS_X - 1)) \X (0..(blocksY * ELTWISE_THREADS_Y - 1))

Strided_StepOne(i0, n, step) == {i \in 0..(n - 1) : i >= i0}

(* "for (i = i0; i < n; i += step)" *)
Strided(i0, n, step) == {i \in 0..(n - 1) : i >= i0 /\ (i - i0) % step = 0}

(* the offsets y * stride + x one thread visits *)
ThreadOffsets(th, blocksX, blocksY, imgPixels, numCases, stride) ==
    {y * stride + x :
        y \in Strided(th[2], imgPixels, blocksY * ELTWISE_THREADS_Y),
        x \in Strided(th[1], numCases, blocksX * ELTWISE_THREADS_X)}

GridOffsets(blocksX, blocksY, imgPixels, numCases, stride) ==
    UNION {ThreadOffsets(th, blocksX, blocksY, imgPixels, numCases, stride) :
              th \in EltGrid(blocksX, blocksY)}

(* the writes of kEltwiseFuncAct and kEltwiseFuncGrad: each thread writes  *)
(* the offsets it visits                                                   *)
EltWrites(blocksX, blocksY, imgPixels, numCases, stride) ==
    UNION {{<<th, o>> : o \in ThreadOffsets(th, blocksX, blocksY, imgPixels, numCases, stride)} :
              th \in EltGrid(blocksX, blocksY)}

Relu(x) == Fmaxf(x, Zero)

(* param0*in1 + param1*in2 + param2*fm2 + param3*fm0 + param4*fm1 + in0 *)
ActVal(in0, in1, in2, p) ==
    RAdd(RAdd(RAdd(RAdd(RAdd(RMul(p[1], in1), RMul(p[2], in2)), RMul(p[3], Relu(in2))),
                   RMul(p[4], Relu(in0))),
              RMul(p[5], Relu(in1))),
         in0)

kEltwiseFuncAct(I0, I1, I2, tgt, p, imgPixels, numCases, stride, blocksX, blocksY, g) ==
    LET O == GridOffsets(blocksX, blocksY, imgPixels, numCases, stride)
    IN  [data |-> [i \in DOMAIN tgt |->
                      IF i \in O
                      THEN ActVal(Read(I0, i, g), Read(I1, i, g), Read(I2, i, g), p)
                      ELSE tgt[i]],
         oob |-> \E i \in O : \/ i \notin DOMAIN tgt \/ i \notin DOMAIN I0
                              \/ i \notin DOMAIN I1 \/ i \notin DOMAIN I2]

(* val0 = 1 + param3*(in0 > 0), val1 = param0 + param4*(in1 > 0),          *)
(* val2 = param1 + param2*(in2 > 0): channel k in 0..2, x its input        *)
EltCoef_GreaterEqual(k, x, p) ==
    LET pos == B2F(~RLt(x, Zero))
    IN  IF k = 0 THEN RAdd(One, RMul(p[4], pos))
        ELSE IF k = 1 THEN RAdd(p[1], RMul(p[5], pos))
        ELSE RAdd(p[2], RMul(p[3], pos))

EltCoef(k, x, p) ==
    LET pos == B2F(RLt(Zero, x))
    IN  IF k = 0 THEN RAdd(One, RMul(p[4], pos))
        ELSE IF k = 1 THEN RAdd(p[1], RMul(p[5], pos))
        ELSE RAdd(p[2], RMul(p[3], pos))

(* the three targets of kEltwiseFuncGrad, I the three inputs, tg the three *)
(* target buffers                                                          *)
kEltwiseFuncGrad(actGrad, I, tg, p, imgPixels, numCases, stride, blocksX, blocksY, g) ==
    LET O == GridOffsets(blocksX, blocksY, imgPixels, numCases, stride)
    IN  [data |-> [k \in 1..3 |->
                      [i \in DOMAIN tg[k] |->
                          IF i \in O
                          THEN RMul(EltCoef(k - 1, Read(I[k], i, g), p), Read(actGrad, i, g))
                          ELSE tg[k][i]]],
         oob |-> \E i \in O : \/ i \notin DOMAIN actGrad
                              \/ \E k \in 1..3 : i \notin DOMAIN I[k] \/ i \notin DOMAIN tg[k]]

RECURSIVE SumOver(_, _)
SumOver(f, S) ==
    IF S = {} THEN Zero
    ELSE LET i == CHOOSE j \in S : TRUE
         IN  RAdd(f[i], SumOver(f, S \ {i}))

(* the addend of sum0..sum4 at one offset: grad*in1, grad*in2, grad*fm2,   *)
(* grad*fm0, grad*fm1                                                      *)
ParamTerm(k, in0, in1, in2, grad_next) ==
    IF k = 1 THEN RMul(grad_next, in1)
    ELSE IF k = 2 THEN RMul(grad_next, in2)
    ELSE IF k = 3 THEN RMul(grad_next, Relu(in2))
    ELSE IF k = 4 THEN RMul(grad_next, Relu(in0))
    ELSE RMul(grad_next, Relu(in1))

(* (threadIdx.x + blockIdx.x*blockDim.x)                                   *)
(*    + (threadIdx.y + blockIdx.y*blockDim.y)*strideTag                    *)
tagOffset(th, strideTag) == th[1] + th[2] * strideTag

(* a thread stores its sums at tagOffset after the x loop of each row it   *)
(* visits: a thread that visits no row stores nothing                      *)
ParamGradWrites(blocksX, blocksY, imgPixels, strideTag) ==
    {<<th, tagOffset(th, strideTag)>> :
        th \in {t \in EltGrid(blocksX, blocksY) :
                  Strided(t[2], imgPixels, blocksY * ELTWISE_THREADS_Y) # {}}}

kEltwiseFuncParamGrad(actGrad, I, tg, imgPixels, numCases, stride, strideTag, blocksX, blocksY, g) ==
    LET G == EltGrid(blocksX, blocksY)
        W == ParamGradWrites(blocksX, blocksY, imgPixels, strideTag)
        Offs(th) == ThreadOffsets(th, blocksX, blocksY, imgPixels, numCases, stride)
        sum(k, th) ==
            SumOver([o \in Offs(th) |->
                        ParamTerm(k, Read(I[1], o, g), Read(I[2], o, g), Read(I[3], o, g),
                                  Read(actGrad, o, g))],
                    Offs(th))
    IN  [data |-> [k \in 1..5 |->
                      [i \in DOMAIN tg[k] |->
                          IF \E w \in W : w[2] = i
                          THEN sum(k, (CHOOSE w \in W : w[2] = i)[1])
                          ELSE tg[k][i]]],
         oob |-> \/ \E w \in W : \E k \in 1..5 : w[2] \notin DOMAIN tg[k]
                 \/ \E th \in G : \E o \in Offs(th) :
                       \/ o \notin DOMAIN actGrad
                       \/ \E k \in 1..3 : o \notin DOMAIN I[k]]

(* ------------------ composite elementwise dispatchers ------------------ *)
EltBlocks(in0) ==
    <<Min(NUM_BLOCKS_MAX, DIVUP(getLeadingDim(in0), ELTWISE_THREADS_X)),
      Min(NUM_BLOCKS_MAX, DIVUP(getFollowingDim(in0), ELTWISE_THREADS_Y))>>

(* "if (!t.isSameDims(like)) t.resize(like);" *)
MatchDims(t, like, g) == IF isSameDims(t, like) THEN t ELSE ResizeLike(t, like, g)

EltInShapes(e) ==
    [b \in {"actGrad", "input0", "input1", "input2"} |->
        IF b = "actGrad" THEN Shape(e.actGrad)
        ELSE IF b = "input0" THEN Shape(e.in[1])
        ELSE IF b = "input1" THEN Shape(e.in[2]) ELSE Shape(e.in[3])]

computeEltwiseFuncParamGrad(e, devErr, g) ==
    LET height == getFollowingDim(e.in[1])
        width == getLeadingDim(e.in[1])
        blocks == EltBlocks(e.in[1])
        sizeX == blocks[1] * ELTWISE_THREADS_X
        sizeY == blocks[2] * ELTWISE_THREADS_Y
        t0 == Resize(e.t[1], sizeX, sizeY, g)
        t1 == [k \in 1..5 |-> IF k = 1 THEN t0 ELSE MatchDims(e.t[k], t0, g)]
        kr == kEltwiseFuncParamGrad(e.actGrad.data, [k \in 1..3 |-> e.in[k].data],
                                    [k \in 1..5 |-> t1[k].data], height, width,
                                    getStride(e.in[1]), sizeX, blocks[1], blocks[2], g)
    IN  [t |-> IF devErr THEN t1 ELSE [k \in 1..5 |-> [t1[k] EXCEPT !.data = kr.data[k]]],
         call |-> Launched("computeEltwiseFuncParamGrad", << >>, t1 # e.t, TRUE,
                     "kEltwiseFuncParamGrad: Kernel execution failed", devErr, kr.oob, FALSE,
                     EltInShapes(e), [k \in 1..5 |-> Shape(t1[k])], blocks,
                     ParamGradWrites(blocks[1], blocks[2], height, sizeX))]

computeEltwiseFuncAct(e, devErr, g) ==
    LET t0 == MatchDims(e.t[1], e.in[1], g)
        height == getFollowingDim(e.in[1])
        width == getLeadingDim(e.in[1])
        blocks == EltBlocks(e.in[1])
        kr == kEltwiseFuncAct(e.in[1].data, e.in[2].data, e.in[3].data, t0.data, e.p,
                              height, width, getStride(e.in[1]), blocks[1], blocks[2], g)
    IN  [t |-> [e.t EXCEPT ![1] = IF devErr THEN t0 ELSE [t0 EXCEPT !.data = kr.data]],
         call |-> Launched("computeEltwiseFuncAct", << >>, t0 # e.t[1], TRUE,
                     "computeEltwiseFuncAct: Kernel execution failed", devErr, kr.oob, FALSE,
                     [b \in {"input0", "input1", "input2"} |-> EltInShapes(e)[b]],
                     [k \in 1..1 |-> Shape(t0)], blocks,
                     EltWrites(blocks[1], blocks[2], height, width, getStride(e.in[1])))]

computeEltwiseFuncGrad(e, devErr, g) ==
    LET t1 == [k \in 1..3 |-> MatchDims(e.t[k], e.in[k], g)]
        height == getFollowingDim(e.in[1])
        width == getLeadingDim(e.in[1])
        blocks == EltBlocks(e.in[1])
        kr == kEltwiseFuncGrad(e.actGrad.data, [k \in 1..3 |-> e.in[k].data],
                               [k \in 1..3 |-> t1[k].data], e.p, height, width,
                               getStride(e.in[1]), blocks[1], blocks[2], g)
    IN  [t |-> [k \in 1..5 |->
                   IF k > 3 THEN e.t[k]
                   ELSE IF devErr THEN t1[k] ELSE [t1[k] EXCEPT !.data = kr.data[k]]],
         call |-> Launched("computeEltwiseFuncGrad", << >>, t1 # SubSeq(e.t, 1, 3), TRUE,
                     "computeEltwiseFuncAct: Kernel execution failed", devErr, kr.oob, FALSE,
                     EltInShapes(e), [k \in 1..3 |-> Shape(t1[k])], blocks,
                     EltWrites(blocks[1], blocks[2], height, width, getStride(e.in[1])))]

(* ------------- one composite elementwise call per behaviour ------------ *)
(* one element of the three inputs and of the incoming gradient *)
Elems == {<<-1, 0, 1, 1>>, <<0, 1, -1, 2>>, <<1, -1, 0, -1>>, <<2, 2, 2, 3>>}

Params == {<<R(2), R(3), R(5), R(7), R(11)>>, <<R(-1), <<1, 2>>, Zero, R(-3), R(2)>>}

EltDefects == {"none", "input1Small", "gradSmall"}

Channel(s, d, c) == Mat(s[1], s[2], FALSE, TRUE, [i \in DOMAIN d |-> R(d[i][c])])

InitElt ==
    /\ \E s \in Shapes, defect \in EltDefects, pp \in Params :
         \E ts \in {s, <<1, 1>>},
            d \in [0..(s[1] * s[2] - 1) -> IF defect = "none" THEN Elems ELSE {<<1, 1, 1, 1>>}] :
            elt = [in |-> <<Channel(s, d, 1),
                            IF defect = "input1Small"
                            THEN Mat(1, 1, FALSE, TRUE, Fill(1, One)) ELSE Channel(s, d, 2),
                            Channel(s, d, 3)>>,
                   actGrad |-> IF defect = "gradSmall"
                               THEN Mat(1, 1, FALSE, TRUE, Fill(1, One)) ELSE Channel(s, d, 4),
                   p |-> pp,
                   t |-> [k \in 1..5 |->
                            Mat(ts[1], ts[2], FALSE, TRUE, Fill(ts[1] * ts[2], R(9)))]]
    /\ probs = Mat(1, 1, FALSE, TRUE, Fill(1, One))
    /\ labels = Mat(1, 1, FALSE, TRUE, Fill(1, Zero))
    /\ probWeights = probs
    /\ costOut = probs
    /\ correctOut = probs
    /\ target = probs
    /\ actsGrad = probs
    /\ dEdx = probs
    /\ coeff = One
    /\ made = {}
    /\ call = NoCall

EltReturns(r) ==
    /\ elt' = [elt EXCEPT !.t = r.t]
    /\ call' = r.call
    /\ UNCHANGED lossVars

EltwiseFuncAct(devErr, g) == EltReturns(computeEltwiseFuncAct(elt, devErr, g))

EltwiseFuncGrad(devErr, g) == EltReturns(computeEltwiseFuncGrad(elt, devErr, g))

EltwiseFuncParamGrad(devErr, g) == EltReturns(computeEltwiseFuncParamGrad(elt, devErr, g))

NextElt ==
    /\ call.fn = "none"
    /\ \/ \E devErr \in BOOLEAN, g \in Garbage : EltwiseFuncAct(devErr, g)
       \/ \E devErr \in BOOLEAN, g \in Garbage : EltwiseFuncGrad(devErr, g)
       \/ \E devErr \in BOOLEAN, g \in Garbage : EltwiseFuncParamGrad(devErr, g)

SpecElt == InitElt /\ [][NextElt]_vars

(* --------------------- composite elementwise claims -------------------- *)
(* the perturbations h of the finite-difference quotient *)
Hs == {<<-2, 1>>, <<-1, 1>>, <<-1, 2>>, <<1, 2>>, <<1, 1>>, <<2, 1>>}

EltCells == 0..(getNumElements(elt.in[1]) - 1)

EltRan(f) == call.fn = f /\ call.outcome = "return" /\ ~call.oob

(* the forward formula at element i with channel k moved by h *)
OutAt(i, k, h) ==
    ActVal(IF k = 0 THEN RAdd(elt.in[1].data[i], h) ELSE elt.in[1].data[i],
           IF k = 1 THEN RAdd(elt.in[2].data[i], h) ELSE elt.in[2].data[i],
           IF k = 2 THEN RAdd(elt.in[3].data[i], h) ELSE elt.in[3].data[i],
           elt.p)

(* (out(in_k + h) - out(in_k)) / h *)
Quotient(i, k, h) == RDiv(RSub(OutAt(i, k, h), OutAt(i, k, Zero)), h)

(* h takes x from one side of zero to the other *)
Across(x, h) ==
    \/ RLt(x, Zero) /\ RLt(Zero, RAdd(x, h))
    \/ RLt(Zero, x) /\ RLt(RAdd(x, h), Zero)

(* x and x + h lie on one linear piece of the kernel's step: both in the   *)
(* closed non-positive half line, or x positive and x + h not negative     *)
OnOnePiece(x, h) ==
    \/ RLt(Zero, x) /\ ~RLt(RAdd(x, h), Zero)
    \/ ~RLt(Zero, x) /\ ~RLt(Zero, RAdd(x, h))

(* C9: after computeEltwiseFuncGrad returns, for each channel k and every  *)
(* element, the gradient written to target k is the incoming gradient      *)
(* times the finite-difference quotient of the forward formula in channel  *)
(* k, for every perturbation h that does not move in_k across zero.        *)
C9_GradIsQuotient ==
    EltRan("computeEltwiseFuncGrad") =>
        \A k \in 0..2, i \in EltCells, h \in Hs :
            ~Across(elt.in[k + 1].data[i], h) =>
                elt.t[k + 1].data[i] = RMul(Quotient(i, k, h), elt.actGrad.data[i])

(* C9, amended: the same equality for every perturbation h that keeps in_k *)
(* and in_k + h on one linear piece, where an input of exactly zero        *)
(* belongs to the non-positive piece: in_k > 0 and in_k + h >= 0, or       *)
(* in_k <= 0 and in_k + h <= 0.                                            *)
C9_GradIsQuotientOnOnePiece ==
    EltRan("computeEltwiseFuncGrad") =>
        \A k \in 0..2, i \in EltCells, h \in Hs :
            OnOnePiece(elt.in[k + 1].data[i], h) =>
                elt.t[k + 1].data[i] = RMul(Quotient(i, k, h), elt.actGrad.data[i])

(* the backward call has returned on inputs holding a positive, a negative *)
(* and a zero element, with a perturbation reaching zero from a positive   *)
(* input and one leaving a zero input downwards                            *)
C9_Witness ==
    /\ EltRan("computeEltwiseFuncGrad")
    /\ "resize" \in {call.events[j] : j \in DOMAIN call.events}
    /\ \E i \in EltCells : elt.in[1].data[i] = Zero /\ elt.t[1].data[i] = elt.actGrad.data[i]
    /\ \E i \in EltCells, h \in Hs :
          /\ RLt(Zero, elt.in[2].data[i]) /\ RAdd(elt.in[2].data[i], h) = Zero
          /\ elt.t[2].data[i] = RMul(RAdd(elt.p[1], elt.p[5]), elt.actGrad.data[i])
    /\ \E i \in EltCells : RLt(elt.in[3].data[i], Zero)

(* C10: after computeEltwiseFuncParamGrad returns, the cells of each of    *)
(* the five targets sum to the full reduction over every element of the    *)
(* input: grad*in1, grad*in2, grad*relu(in2), grad*relu(in0),              *)
(* grad*relu(in1) respectively, for every input height and width.          *)
C10_ParamGradFullReduction ==
    EltRan("computeEltwiseFuncParamGrad") =>
        \A k \in 1..5 :
            SumOver(elt.t[k].data, DOMAIN elt.t[k].data)
                = SumOver([i \in EltCells |->
                              ParamTerm(k, elt.in[1].data[i], elt.in[2].data[i],
                                        elt.in[3].data[i], elt.actGrad.data[i])],
                          EltCells)

(* --------------- every dispatcher on the caller's descriptors ---------- *)
(* The caller holds one forward matrix, stored either way round, and hands *)
(* it unchanged to whichever dispatcher it calls; what a dispatcher checks *)
(* and how it launches depend on the descriptors only, so the contents are *)
(* fixed.  A gradient dispatcher may follow the cost dispatcher whose      *)
(* forward matrix it consumes.                                             *)
InitDispatch ==
    /\ \E s \in Shapes, tr \in BOOLEAN :
         /\ probs = Mat(s[1], s[2], tr, TRUE, Fill(s[1] * s[2], <<1, 2>>))
         /\ actsGrad = Mat(s[1], s[2], tr, TRUE, Fill(s[1] * s[2], One))
         /\ \E n \in {s[1], s[2]} :
               /\ labels = Mat(1, n, FALSE, TRUE, Fill(n, Zero))
               /\ \E wn \in {n, n + 1} : probWeights = Mat(1, wn, FALSE, TRUE, Fill(wn, One))
         /\ \E ts \in {s, <<1, 1>>} :
               /\ target = Mat(ts[1], ts[2], tr, TRUE, Fill(ts[1] * ts[2], R(-3)))
               /\ elt = [in |-> [k \in 1..3 |->
                                   Mat(s[1], s[2], FALSE, TRUE, Fill(s[1] * s[2], One))],
                         actGrad |-> Mat(s[1], s[2], FALSE, TRUE, Fill(s[1] * s[2], One)),
                         p |-> <<R(2), R(3), R(5), R(7), R(11)>>,
                         t |-> [k \in 1..5 |->
                                  Mat(ts[1], ts[2], FALSE, TRUE, Fill(ts[1] * ts[2], R(9)))]]
    /\ \E o \in OutShapes :
         /\ costOut = Mat(o[1], o[2], FALSE, TRUE, Fill(o[1] * o[2], Zero))
         /\ correctOut = costOut
    /\ dEdx = Mat(1, 1, FALSE, TRUE, Fill(1, Zero))
    /\ coeff = One
    /\ made = {}
    /\ call = NoCall

NextDispatch ==
    /\ call.fn = "none" \/ (call.fn = "computeLogregCost" /\ call.outcome = "return")
    /\ \/ \E devErr \in BOOLEAN, g \in Garbage :
             computeLogregCost(devErr, g) /\ UNCHANGED <<gradVars, elt>>
       \/ \E devErr \in BOOLEAN, g \in Garbage :
             computeL2SVMCost(devErr, g) /\ UNCHANGED <<gradVars, elt>>
       \/ \E p \in PPows, devErr \in BOOLEAN, g \in Garbage :
             computeRLogCost(p, devErr, g) /\ UNCHANGED <<gradVars, elt>>
       \/ \E add, devErr \in BOOLEAN, g \in Garbage : LogregGrad(FALSE, add, devErr, g)
       \/ \E add, devErr \in BOOLEAN, g \in Garbage : RLogGrad(FALSE, add, devErr, g)
       \/ \E add, devErr \in BOOLEAN, g \in Garbage : L2SVMGrad(FALSE, add, devErr, g)
       \/ \E add, devErr \in BOOLEAN, g \in Garbage : SoftmaxGrad(FALSE, add, devErr, g)
       \/ \E add, devErr \in BOOLEAN, g \in Garbage : LogregSoftmaxGrad(FALSE, add, devErr, g)
       \/ \E add, devErr \in BOOLEAN, g \in Garbage : RLogSoftmaxGrad(FALSE, add, devErr, g)
       \/ \E add, devErr \in BOOLEAN, g \in Garbage : EltwiseMaxGrad(add, devErr, g)
       \/ \E devErr \in BOOLEAN, g \in Garbage : EltwiseFuncAct(devErr, g)
       \/ \E devErr \in BOOLEAN, g \in Garbage : EltwiseFuncGrad(devErr, g)
       \/ \E devErr \in BOOLEAN, g \in Garbage : EltwiseFuncParamGrad(devErr, g)

SpecDispatch == InitDispatch /\ [][NextDispatch]_vars

(* ------------------------- claims on the dispatch ---------------------- *)
(* the kernel of the call was launched and ran *)
KernelRan == Len(call.grid) > 0 /\ ~call.devErr

(* the cells the kernel of the call wrote *)
CellsWritten == {w[2] : w \in call.writes}

(* the dispatchers whose kernel writes one output cell per element of the  *)
(* matrix the grid is computed from, and the number of its elements        *)
CellwiseFns ==
    GradFns \cup {"computeEltwiseFuncAct", "computeEltwiseFuncGrad"}

GridMatrixElements ==
    IF call.fn \in {"computeEltwiseFuncAct", "computeEltwiseFuncGrad"}
    THEN getNumElements(elt.in[1])
    ELSE getNumElements(probs)

(* C11: in every dispatcher each dimension of the launch grid is at most   *)
(* NUM_BLOCKS_MAX, and the launched kernel still processes every cell of   *)
(* the matrix.                                                             *)
C11_GridClamped ==
    /\ \A d \in DOMAIN call.grid : call.grid[d] <= NUM_BLOCKS_MAX
    /\ (KernelRan /\ call.fn \in CellwiseFns)
          => \A i \in 0..(GridMatrixElements - 1) : i \in CellsWritten

(* C12: within one kernel launch no two distinct threads of the grid write *)
(* the same cell of an output buffer: every cell that is written is        *)
(* written by exactly one thread, for every grid the dispatcher produces.  *)
C12_DisjointWrites ==
    \A w1, w2 \in call.writes : w1[2] = w2[2] => w1[1] = w2[1]

(* a clamped grid ran: several threads wrote, and one of them wrote more   *)
(* than one cell by striding                                               *)
C12_Witness ==
    /\ call.fn = "computeEltwiseFuncAct" /\ KernelRan
    /\ \E d \in DOMAIN call.grid :
          call.grid[d] < DIVUP(elt.in[1].rows, ELTWISE_THREADS_Y)
    /\ \E w1, w2 \in call.writes : w1[1] = w2[1] /\ w1[2] # w2[2]
    /\ \E w1, w2 \in call.writes : w1[1] # w2[1]

(* the events of a call that are checks, and those that touch an output    *)
(* or the device                                                           *)
IsCheck(e) == e \in {"assert", "explicit"}

IsEffect(e) == e \in {"resize", "launch"}

(* C13: in every dispatcher every assertion and explicit check precedes    *)
(* the first resize of an output and the launch; a call whose check fails  *)
(* ends with no output resized, no output written and no kernel launched.  *)
C13_ChecksFirst ==
    [][(call' # call) =>
          /\ \A i, j \in DOMAIN call'.events :
                (IsEffect(call'.events[i]) /\ IsCheck(call'.events[j])) => j < i
          /\ call'.outcome \in {"abort", "exit"} =>
                /\ \A i \in DOMAIN call'.events : ~IsEffect(call'.events[i])
                /\ call'.grid = << >>
                /\ target' = target /\ costOut' = costOut /\ correctOut' = correctOut
                /\ probWeights' = probWeights /\ elt' = elt]_vars

(* computeEltwiseMaxGrad with add = true stopped at its last assertion, on *)
(* a target that a resize would have changed                               *)
C13_Witness ==
    /\ call.fn = "computeEltwiseMaxGrad" /\ call.outcome = "abort"
    /\ Len(call.events) = 6
    /\ ~isSameDims(target, actsGrad)
    /\ target.data = Fill(getNumElements(target), R(-3))

(* C14: for every call of a gradient dispatcher that passes the            *)
(* dispatcher's checks, with add = true as well as add = false, every      *)
(* index the kernel writes lies within the target's allocated elements.    *)
C14_TargetWritesInBounds ==
    (call.fn \in GradFns /\ KernelRan) =>
        \A w \in call.writes : w[2] < getNumElements(target)

(* C15: for every call of a cost dispatcher that passes its checks, every  *)
(* index label * numCases + case the cost kernel reads in the activation / *)
(* probability matrix lies in [0, numOut * numCases).                      *)
C15_LabelReadsInBounds ==
    (call.fn \in CostFns /\ KernelRan) =>
        \A w \in call.writes :
            LET tx == w[1]
                idx == TruncInt(labels.data[tx]) * probs.cols + tx
            IN  0 <= idx /\ idx < probs.rows * probs.cols

(* the gradient dispatchers that consume the forward matrix of             *)
(* computeLogregCost                                                       *)
LogregConsumers == {"computeLogregGrad", "computeLogregSoftmaxGrad", "computeSoftmaxGrad"}

(* C16: a probability matrix descriptor that passed the preconditions of   *)
(* computeLogregCost also passes those of computeLogregGrad,               *)
(* computeLogregSoftmaxGrad and computeSoftmaxGrad called on it            *)
(* afterwards, and they derive the same (numOut, numCases) from it.        *)
C16_DescriptorAccepted ==
    [][(call.fn = "computeLogregCost" /\ call.outcome = "return"
        /\ call'.fn \in LogregConsumers)
       => /\ call'.outcome # "abort"
          /\ <<getFollowingDim(probs), getLeadingDim(probs)>> = <<probs.rows, probs.cols>>]_vars

(* the kernel each dispatcher launches *)
KernelOf(f) ==
    CASE f = "computeLogregCost" -> "kLogregCost"
      [] f = "computeL2SVMCost" -> "kL2SVMCost"
      [] f = "computeRLogCost" -> "kRLogCost"
      [] f = "computeLogregGrad" -> "kLogregCostGrad"
      [] f = "computeRLogGrad" -> "kRLogCostGrad"
      [] f = "computeL2SVMGrad" -> "kL2SVMGrad"
      [] f = "computeSoftmaxGrad" -> "kSoftmaxGrad"
      [] f = "computeLogregSoftmaxGrad" -> "kLogregSoftmaxGrad"
      [] f = "computeRLogSoftmaxGrad" -> "kRLogSoftmaxGrad"
      [] f = "computeEltwiseMaxGrad" -> "kEltwiseMaxGrad"
      [] f = "computeEltwiseFuncAct" -> "kEltwiseFuncAct"
      [] f = "computeEltwiseFuncGrad" -> "kEltwiseFuncGrad"
      [] f = "computeEltwiseFuncParamGrad" -> "kEltwiseFuncParamGrad"

(* the diagnostics that name the dispatcher f or its kernel *)
DiagnosticsOf(f) ==
    {f \o ": Kernel execution failed", KernelOf(f) \o ": Kernel execution failed"}

(* C17: the message a dispatcher passes to its post-launch status check,   *)
(* with which the process terminates on a device failure, names that       *)
(* dispatcher or its kernel and no other operation.                        *)
C17_MessageNamesOperation ==
    (\E i \in DOMAIN call.events : call.events[i] = "check") =>
        call.msg \in DiagnosticsOf(call.fn)

====
